---- MODULE Spec2Model ----
(***************************************************************************)
(* build-lambda-zip: packaging of an executable and auxiliary files into   *)
(* a zip archive, written to a file or pushed to a Lambda function with a  *)
(* status-polling loop.                                                    *)
(*                                                                         *)
(* A path is a record [dir, stem, ext]; the path string is their           *)
(* concatenation, filepath.Base is stem \o ext and filepath.Ext is ext.    *)
(* File contents and symbolic-link targets are strings (byte strings).    *)
(* A *string is a sequence of length 0 (nil) or 1.                         *)
(***************************************************************************)
EXTENDS Integers, Sequences, FiniteSets, TLC

\* ------------------------------------------------------------------ bounds
MaxArgs == 2        \* auxiliary paths per invocation
MaxPolls == 3       \* in-progress answers the remote gives before it settles

\* ------------------------------------------------------- program constants
Perm0755 == 493         \* 0755
Perm0777 == 511         \* 0777
ModeSymlinkBits == 40960 \* S_IFLNK, what SetMode stores for os.ModeSymlink
UnixCreator == 3        \* CreatorVersion high byte "indicates Unix"

BootstrapName == "bootstrap"
Nil == "nil"            \* the nil error
NoFile == "<absent>"    \* a path that cannot be read

\* ------------------------------------------------------------ input domain
P(d, s, e) == [dir |-> d, stem |-> s, ext |-> e]
PathStr(p) == p.dir \o p.stem \o p.ext
Base(p) == p.stem \o p.ext
Ext(p) == p.ext

ExePaths == {P("", "bootstrap", ""), P("bin/", "handler", ""), P("", "main", ".go")}
AuxPaths == {P("", "bootstrap", ""), P("", "handler", ""), P("conf/", "a", ".txt")}
\* The bytes of the file at a path: every file has contents of its own.
FileBytes(path) == "bytes of " \o path
FsPaths == {PathStr(p) : p \in (ExePaths \cup AuxPaths) \ {P("", "main", ".go")}}
BuiltExe(in) == P("", Base(in), ".exe")
AllFsPaths == FsPaths \cup {PathStr(BuiltExe(p)) : p \in {q \in ExePaths : Ext(q) = ".go"}}

SeqsUpTo(S, n) == UNION {[1..k -> S] : k \in 0..n}
ArgLists == {<<>>} \cup {<<e>> \o a : e \in ExePaths, a \in SeqsUpTo(AuxPaths, MaxArgs)}

InProgress == "InProgress"
Successful == "Successful"
Failed == "Failed"
LastUpdateStatus == {InProgress, Successful, Failed}
Reasons == {<<>>, <<"why">>}

\* ------------------------------------------------------------------- state
VARIABLES
    pc,            \* position in main and its callees
    flagArgs,      \* flag.Args(): the executable path, then auxiliary paths
    functionName,  \* -u flag
    outputZip,     \* -o flag, then the effective output path
    inputExe,      \* path of the executable that is packaged
    fs,            \* path string -> file bytes, or NoFile
    cleanup,       \* <<builtExePath>> once main's deferred removal is armed
    sink,          \* "none", "file" or "buffer": the io.Writer under the zip
    outFile,       \* the output file on disk
    zw,            \* the zip.Writer: entries handed to it, and closed
    data,          \* bytes read from the executable
    argi,          \* index of the auxiliary path in the range loop
    err,           \* the error being returned by the current callee
    closes,        \* Close calls in order, "zip" or "file"
    ioLog,         \* file reads, archive writes and removals in order
    status,        \* last observed LastUpdateStatus
    statusReason,  \* last observed reason, a *string
    reports,       \* the "state[..] reason[..]" lines, in order
    observed,      \* status and reason returned by the remote, in order
    updateCalls,   \* UpdateFunctionCode calls made
    getCalls,      \* GetFunction calls made
    outcome,       \* how main ended: "" while running
    fnCall,        \* the library function under evaluation, "none" in main
    fnArg,         \* its argument
    fnRet          \* its result

vars == <<pc, flagArgs, functionName, outputZip, inputExe, fs, cleanup, sink,
          outFile, zw, data, argi, err, closes, ioLog, status, statusReason,
          reports, observed, updateCalls, getCalls, outcome,
          fnCall, fnArg, fnRet>>

mainVars == <<pc, flagArgs, functionName, outputZip, inputExe, fs, cleanup,
              sink, outFile, zw, data, argi, err, closes, ioLog, status,
              statusReason, reports, observed, updateCalls, getCalls, outcome>>

\* flag.Args()[1:]
args == SubSeq(flagArgs, 2, Len(flagArgs))

\* Only the files the invocation names matter; every other path, the not yet
\* built executable included, starts absent.
Referenced(fa) == {PathStr(fa[k]) : k \in 1..Len(fa)}

NoOutFile == [exists |-> FALSE, path |-> "", entries |-> <<>>, complete |-> FALSE]

Init ==
    /\ pc = "main"
    /\ flagArgs \in ArgLists
    /\ functionName \in {"", "fn"}
    /\ outputZip \in {"", "out.zip"}
    /\ inputExe = P("", "", "")
    /\ fs \in [AllFsPaths -> {FileBytes(p) : p \in AllFsPaths} \cup {NoFile}]
    /\ \A p \in AllFsPaths : fs[p] \in {FileBytes(p), NoFile}
    /\ \A p \in AllFsPaths : p \notin Referenced(flagArgs) => fs[p] = NoFile
    /\ cleanup = <<>>
    /\ sink = "none"
    /\ outFile = NoOutFile
    /\ zw = [entries |-> <<>>, closed |-> FALSE]
    /\ data = ""
    /\ argi = 0
    /\ err = Nil
    /\ closes = <<>>
    /\ ioLog = <<>>
    /\ status = ""
    /\ statusReason = <<>>
    /\ reports = <<>>
    /\ observed = <<>>
    /\ updateCalls = 0
    /\ getCalls = 0
    /\ outcome = ""
    /\ fnCall = "none"
    /\ fnArg = <<>>
    /\ fnRet = <<>>

\* ------------------------------------------------------------------- main
\* log.Fatal / log.Fatalf: os.Exit(1), deferred functions do not run.
Fatal(what) ==
    /\ pc' = "exit"
    /\ outcome' = what

\* main, lines 49-58: flag.Parse, the input check, the default output path.
MainParse ==
    /\ pc = "main"
    /\ IF Len(flagArgs) = 0
       THEN /\ Fatal("fatal: no input provided")
            /\ UNCHANGED <<inputExe, outputZip>>
       ELSE /\ inputExe' = flagArgs[1]
            /\ outputZip' = IF outputZip = "" THEN Base(flagArgs[1]) \o ".zip"
                                               ELSE outputZip
            /\ pc' = IF Ext(flagArgs[1]) = ".go" THEN "goBuild" ELSE "dispatch"
            /\ UNCHANGED outcome
    /\ UNCHANGED <<fnCall, fnArg, fnRet, flagArgs, functionName, fs, cleanup, sink, outFile, zw, data,
                   argi, err, closes, ioLog, status, statusReason, reports,
                   observed, updateCalls, getCalls>>

MainGoBuild_ErrorOnlyLogged ==
    /\ pc = "goBuild"
    /\ \E ok \in BOOLEAN :
        /\ fs' = IF ok THEN [fs EXCEPT ![PathStr(BuiltExe(inputExe))] =
                                       FileBytes(PathStr(BuiltExe(inputExe)))]
                       ELSE fs
        /\ cleanup' = <<BuiltExe(inputExe)>>
        /\ inputExe' = BuiltExe(inputExe)
        /\ pc' = "dispatch"
        /\ outcome' = IF ok THEN outcome ELSE "fatal: failed to compile"
    /\ UNCHANGED <<fnCall, fnArg, fnRet, flagArgs, functionName, outputZip, sink, outFile, zw, data,
                   argi, err, closes, ioLog, status, statusReason, reports,
                   observed, updateCalls, getCalls>>

\* goBuild and main lines 59-70: the external build either fails (fatal) or
\* leaves the built executable on disk; then the removal is deferred.
MainGoBuild ==
    /\ pc = "goBuild"
    /\ \E ok \in BOOLEAN :
        IF ok
        THEN /\ fs' = [fs EXCEPT ![PathStr(BuiltExe(inputExe))] =
                                 FileBytes(PathStr(BuiltExe(inputExe)))]
             /\ cleanup' = <<BuiltExe(inputExe)>>
             /\ inputExe' = BuiltExe(inputExe)
             /\ pc' = "dispatch"
             /\ UNCHANGED outcome
        ELSE /\ Fatal("fatal: failed to compile")
             /\ UNCHANGED <<fs, cleanup, inputExe>>
    /\ UNCHANGED <<fnCall, fnArg, fnRet, flagArgs, functionName, outputZip, sink, outFile, zw, data,
                   argi, err, closes, ioLog, status, statusReason, reports,
                   observed, updateCalls, getCalls>>

DispatchTarget_AlwaysFile(fn) == "toFile"

\* main, lines 73 and 78: which output path a function name selects.
DispatchTarget(fn) == IF fn = "" THEN "toFile" ELSE "update"

\* main, lines 73 and 78: the choice between the two output paths.
MainDispatch ==
    /\ pc = "dispatch"
    /\ pc' = DispatchTarget(functionName)
    /\ UNCHANGED <<fnCall, fnArg, fnRet, flagArgs, functionName, outputZip, inputExe, fs, cleanup,
                   sink, outFile, zw, data, argi, err, closes, ioLog, status,
                   statusReason, reports, observed, updateCalls, getCalls,
                   outcome>>

\* -------------------------------------------------------- archive builder
\* zip.FileHeader as far as the tool sets it: creator is CreatorVersion >> 8,
\* mode is ExternalAttrs >> 16.
Entry(n, c, m, d) == [name |-> n, creator |-> c, mode |-> m,
                      method |-> "Deflate", data |-> d]

NeedsLink_Always(pathInZip) == TRUE

\* writeExe, line 87.
NeedsLink(pathInZip) == pathInZip # BootstrapName

LinkEntry_SelfTarget(pathInZip) ==
    Entry(BootstrapName, UnixCreator, ModeSymlinkBits + Perm0755, BootstrapName)

\* writeExe, lines 88-94: the header after SetMode(0755 | os.ModeSymlink),
\* with the link target written as the entry's content.
LinkEntry(pathInZip) ==
    Entry(BootstrapName, UnixCreator, ModeSymlinkBits + Perm0755, pathInZip)

ExeEntry_DefaultAttrs(pathInZip, d) == Entry(pathInZip, 0, 0, d)

\* writeExe, lines 99-109.
ExeEntry(pathInZip, d) == Entry(pathInZip, UnixCreator, Perm0777, d)

AuxEntry_BaseName(arg, d) == Entry(Base(arg), 0, 0, d)

\* zipWriter.Create(arg), line 187: default metadata.
AuxEntry(arg, d) == Entry(PathStr(arg), 0, 0, d)

\* Writes to a bytes.Buffer do not fail; writes to the file may.
WriteResults == IF sink = "file" THEN {"ok", "createErr", "writeErr"} ELSE {"ok"}

\* CreateHeader followed by Write on the entry: the entry is in the archive
\* once CreateHeader succeeded, and holds its content once Write succeeded.
PutEntry(e, r, next) ==
    /\ zw' = CASE r = "ok" -> [zw EXCEPT !.entries = Append(@, e)]
               [] r = "writeErr" -> [zw EXCEPT !.entries = Append(@, [e EXCEPT !.data = ""])]
               [] OTHER -> zw
    /\ ioLog' = IF r = "createErr" THEN ioLog ELSE Append(ioLog, <<"entry", e.name>>)
    /\ err' = IF r = "ok" THEN Nil ELSE r
    /\ pc' = IF r = "ok" THEN next ELSE "zipClose"

AfterExe == IF Len(args) >= 1 THEN "auxCreate" ELSE "zipClose"

\* compressExeAndArgsToFile, lines 159-168: os.Create truncates or creates
\* the output file; the deferred Close is armed.
ToFileCreate ==
    /\ pc = "toFile"
    /\ \E ok \in BOOLEAN :
        IF ok
        THEN /\ outFile' = [exists |-> TRUE, path |-> outputZip,
                            entries |-> <<>>, complete |-> FALSE]
             /\ sink' = "file"
             /\ pc' = "readExe"
             /\ UNCHANGED err
        ELSE /\ err' = "createFileErr"
             /\ pc' = "toFileRet"
             /\ UNCHANGED <<outFile, sink>>
    /\ UNCHANGED <<fnCall, fnArg, fnRet, flagArgs, functionName, outputZip, inputExe, fs, cleanup,
                   zw, data, argi, closes, ioLog, status, statusReason, reports,
                   observed, updateCalls, getCalls, outcome>>

\* updateFunctionCode, line 114: the archive goes to a memory buffer.
UpdateNewBuffer ==
    /\ pc = "update"
    /\ sink' = "buffer"
    /\ pc' = "readExe"
    /\ UNCHANGED <<fnCall, fnArg, fnRet, flagArgs, functionName, outputZip, inputExe, fs, cleanup,
                   outFile, zw, data, argi, err, closes, ioLog, status,
                   statusReason, reports, observed, updateCalls, getCalls,
                   outcome>>

\* compressExeAndArgs, lines 174-179: zip.NewWriter, deferred Close,
\* ioutil.ReadFile(exePath).
ReadExe ==
    /\ pc = "readExe"
    /\ IF fs[PathStr(inputExe)] = NoFile
       THEN /\ err' = "readErr"
            /\ pc' = "zipClose"
            /\ UNCHANGED <<data, ioLog>>
       ELSE /\ data' = fs[PathStr(inputExe)]
            /\ ioLog' = Append(ioLog, <<"read", PathStr(inputExe)>>)
            /\ pc' = IF NeedsLink(Base(inputExe)) THEN "writeLink" ELSE "writeExe"
            /\ UNCHANGED err
    /\ UNCHANGED <<fnCall, fnArg, fnRet, flagArgs, functionName, outputZip, inputExe, fs, cleanup,
                   sink, outFile, zw, argi, closes, status, statusReason,
                   reports, observed, updateCalls, getCalls, outcome>>

\* writeExe, lines 87-97.
WriteLink ==
    /\ pc = "writeLink"
    /\ \E r \in WriteResults : PutEntry(LinkEntry(Base(inputExe)), r, "writeExe")
    /\ UNCHANGED <<fnCall, fnArg, fnRet, flagArgs, functionName, outputZip, inputExe, fs, cleanup,
                   sink, outFile, data, argi, closes, status, statusReason,
                   reports, observed, updateCalls, getCalls, outcome>>

\* writeExe, lines 99-110, and the entry into the range loop at line 186.
WriteExe ==
    /\ pc = "writeExe"
    /\ \E r \in WriteResults : PutEntry(ExeEntry(Base(inputExe), data), r, AfterExe)
    /\ argi' = 1
    /\ UNCHANGED <<fnCall, fnArg, fnRet, flagArgs, functionName, outputZip, inputExe, fs, cleanup,
                   sink, outFile, data, closes, status, statusReason, reports,
                   observed, updateCalls, getCalls, outcome>>

\* compressExeAndArgs, lines 187-190.
AuxCreate ==
    /\ pc = "auxCreate"
    /\ \E r \in WriteResults \ {"writeErr"} :
          PutEntry(AuxEntry(args[argi], ""), r, "auxRead")
    /\ UNCHANGED <<fnCall, fnArg, fnRet, flagArgs, functionName, outputZip, inputExe, fs, cleanup,
                   sink, outFile, data, argi, closes, status, statusReason,
                   reports, observed, updateCalls, getCalls, outcome>>

\* compressExeAndArgs, lines 191-194.
AuxRead ==
    /\ pc = "auxRead"
    /\ IF fs[PathStr(args[argi])] = NoFile
       THEN /\ err' = "readErr"
            /\ pc' = "zipClose"
            /\ UNCHANGED ioLog
       ELSE /\ ioLog' = Append(ioLog, <<"read", PathStr(args[argi])>>)
            /\ pc' = "auxWrite"
            /\ UNCHANGED err
    /\ UNCHANGED <<fnCall, fnArg, fnRet, flagArgs, functionName, outputZip, inputExe, fs, cleanup,
                   sink, outFile, zw, data, argi, closes, status, statusReason,
                   reports, observed, updateCalls, getCalls, outcome>>

\* compressExeAndArgs, lines 195-199 and the loop's next iteration.
AuxWrite ==
    /\ pc = "auxWrite"
    /\ \E r \in WriteResults \ {"createErr"} :
        IF r = "ok"
        THEN /\ zw' = [zw EXCEPT !.entries[Len(zw.entries)].data = fs[PathStr(args[argi])]]
             /\ argi' = argi + 1
             /\ pc' = IF argi + 1 <= Len(args) THEN "auxCreate" ELSE "zipClose"
             /\ UNCHANGED err
        ELSE /\ err' = r
             /\ pc' = "zipClose"
             /\ UNCHANGED <<zw, argi>>
    /\ UNCHANGED <<fnCall, fnArg, fnRet, flagArgs, functionName, outputZip, inputExe, fs, cleanup,
                   sink, outFile, data, closes, ioLog, status, statusReason,
                   reports, observed, updateCalls, getCalls, outcome>>

\* compressExeAndArgs, line 175: the deferred zipWriter.Close() writes the
\* central directory of the entries created so far to the underlying writer.
ZipClose ==
    /\ pc = "zipClose"
    /\ zw' = [zw EXCEPT !.closed = TRUE]
    /\ closes' = Append(closes, "zip")
    /\ outFile' = IF sink = "file"
                  THEN [outFile EXCEPT !.entries = zw.entries, !.complete = TRUE]
                  ELSE outFile
    /\ pc' = IF sink = "file" THEN "fileClose" ELSE "built"
    /\ UNCHANGED <<fnCall, fnArg, fnRet, flagArgs, functionName, outputZip, inputExe, fs, cleanup,
                   sink, data, argi, err, ioLog, status, statusReason, reports,
                   observed, updateCalls, getCalls, outcome>>

FileClose_Leaked ==
    /\ pc = "fileClose"
    /\ pc' = "toFileRet"
    /\ UNCHANGED <<fnCall, fnArg, fnRet, flagArgs, functionName, outputZip, inputExe, fs, cleanup,
                   sink, outFile, zw, data, argi, err, closes, ioLog, status,
                   statusReason, reports, observed, updateCalls, getCalls,
                   outcome>>

\* compressExeAndArgsToFile, lines 163-168: the deferred zipFile.Close().
FileClose ==
    /\ pc = "fileClose"
    /\ closes' = Append(closes, "file")
    /\ pc' = "toFileRet"
    /\ UNCHANGED <<fnCall, fnArg, fnRet, flagArgs, functionName, outputZip, inputExe, fs, cleanup,
                   sink, outFile, zw, data, argi, err, ioLog, status,
                   statusReason, reports, observed, updateCalls, getCalls,
                   outcome>>

\* main, lines 74-77.
MainAfterToFile ==
    /\ pc = "toFileRet"
    /\ IF err # Nil
       THEN Fatal("fatal: failed to compress file")
       ELSE /\ outcome' = "wrote"
            /\ pc' = "return"
    /\ UNCHANGED <<fnCall, fnArg, fnRet, flagArgs, functionName, outputZip, inputExe, fs, cleanup,
                   sink, outFile, zw, data, argi, err, closes, ioLog, status,
                   statusReason, reports, observed, updateCalls, getCalls>>

\* main, lines 63-68 and 84: on a normal return the deferred removal of the
\* intermediate executable runs; its failure is only logged.
MainReturn ==
    /\ pc = "return"
    /\ pc' = "exit"
    /\ IF cleanup # <<>>
       THEN /\ \E removed \in BOOLEAN :
                 fs' = IF removed THEN [fs EXCEPT ![PathStr(cleanup[1])] = NoFile]
                                  ELSE fs
            /\ ioLog' = Append(ioLog, <<"remove", PathStr(cleanup[1])>>)
       ELSE UNCHANGED <<fs, ioLog>>
    /\ UNCHANGED <<fnCall, fnArg, fnRet, flagArgs, functionName, outputZip, inputExe, cleanup, sink,
                   outFile, zw, data, argi, err, closes, status,
                   statusReason, reports, observed, updateCalls, getCalls,
                   outcome>>

\* ---------------------------------------------------------- deploy client
\* deref, lines 151-156.
deref(s) == IF s = <<>> THEN "<nil>" ELSE s[1]

\* The remote keeps an update in progress for at most MaxPolls observations.
InProgressSeen == Cardinality({k \in 1..Len(observed) : observed[k].state = InProgress})
RemoteAnswers == IF InProgressSeen < MaxPolls THEN LastUpdateStatus
                                              ELSE LastUpdateStatus \ {InProgress}

AfterUpdateCall_Ignored(e) == "loop"

\* updateFunctionCode, lines 127-131: where an UpdateFunctionCode result leads.
AfterUpdateCall(e) == IF e # Nil THEN "updRet" ELSE "loop"

AfterGetFunction_Retried(e) == "loop"

\* updateFunctionCode, lines 139-144: where a GetFunction result leads.
AfterGetFunction(e) == IF e # Nil THEN "updRet" ELSE "loop"

ReportsAfter_SkipTerminal(reps, st, reason) ==
    IF st = InProgress THEN Append(reps, [state |-> st, reason |-> deref(reason)])
                       ELSE reps

\* updateFunctionCode, line 133.
ReportsAfter(reps, st, reason) == Append(reps, [state |-> st, reason |-> deref(reason)])

LoopContinues_Always(st) == TRUE

LoopContinues_UnlessFailed(st) == st # Failed

\* updateFunctionCode, line 134.
LoopContinues(st) == st = InProgress

LoopExitErr_FailedIsError(st) == IF st = Failed THEN "updateFailed" ELSE Nil

\* updateFunctionCode, lines 146-148.
LoopExitErr(st) == Nil

\* updateFunctionCode, lines 115-121: the build's error is returned as is;
\* otherwise the default configuration is loaded, which may fail.
UpdateConfig ==
    /\ pc = "built"
    /\ IF err # Nil
       THEN /\ pc' = "updRet"
            /\ UNCHANGED err
       ELSE \E ok \in BOOLEAN :
            /\ err' = IF ok THEN Nil ELSE "configErr"
            /\ pc' = IF ok THEN "updCall" ELSE "updRet"
    /\ UNCHANGED <<fnCall, fnArg, fnRet, flagArgs, functionName, outputZip, inputExe, fs, cleanup,
                   sink, outFile, zw, data, argi, closes, ioLog, status,
                   statusReason, reports, observed, updateCalls, getCalls,
                   outcome>>

\* updateFunctionCode, lines 122-131.
UpdateCall ==
    /\ pc = "updCall"
    /\ updateCalls' = updateCalls + 1
    /\ \/ /\ err' = "updateErr"
          /\ pc' = AfterUpdateCall("updateErr")
          /\ UNCHANGED <<status, statusReason, observed>>
       \/ \E st \in RemoteAnswers, r \in Reasons :
          /\ status' = st
          /\ statusReason' = r
          /\ observed' = Append(observed, [state |-> st, reason |-> r])
          /\ pc' = AfterUpdateCall(Nil)
          /\ UNCHANGED err
    /\ UNCHANGED <<fnCall, fnArg, fnRet, flagArgs, functionName, outputZip, inputExe, fs, cleanup,
                   sink, outFile, zw, data, argi, closes, ioLog, reports,
                   getCalls, outcome>>

\* updateFunctionCode, lines 133-134 and 146-148: one status line, then
\* either on to the wait and fetch, or out of the loop with a nil error.
LoopReport ==
    /\ pc = "loop"
    /\ reports' = ReportsAfter(reports, status, statusReason)
    /\ IF LoopContinues(status)
       THEN /\ pc' = "poll"
            /\ UNCHANGED err
       ELSE /\ pc' = "updRet"
            /\ err' = LoopExitErr(status)
    /\ UNCHANGED <<fnCall, fnArg, fnRet, flagArgs, functionName, outputZip, inputExe, fs, cleanup,
                   sink, outFile, zw, data, argi, closes, ioLog, status,
                   statusReason, observed, updateCalls, getCalls, outcome>>

\* updateFunctionCode, lines 135-144: the sleep and the GetFunction call.
Poll ==
    /\ pc = "poll"
    /\ getCalls < MaxPolls
    /\ getCalls' = getCalls + 1
    /\ \/ /\ err' = "getErr"
          /\ pc' = AfterGetFunction("getErr")
          /\ UNCHANGED <<status, statusReason, observed>>
       \/ \E st \in RemoteAnswers, r \in Reasons :
          /\ status' = st
          /\ statusReason' = r
          /\ observed' = Append(observed, [state |-> st, reason |-> r])
          /\ pc' = AfterGetFunction(Nil)
          /\ UNCHANGED err
    /\ UNCHANGED <<fnCall, fnArg, fnRet, flagArgs, functionName, outputZip, inputExe, fs, cleanup,
                   sink, outFile, zw, data, argi, closes, ioLog, reports,
                   updateCalls, outcome>>

\* main, lines 79-82.
MainAfterUpdate ==
    /\ pc = "updRet"
    /\ IF err # Nil
       THEN Fatal("fatal: failed to update function code")
       ELSE /\ outcome' = "updated"
            /\ pc' = "return"
    /\ UNCHANGED <<fnCall, fnArg, fnRet, flagArgs, functionName, outputZip, inputExe, fs, cleanup,
                   sink, outFile, zw, data, argi, err, closes, ioLog, status,
                   statusReason, reports, observed, updateCalls, getCalls>>

\* ----------------------------------------------------------- specification
Next ==
    \/ MainParse
    \/ MainGoBuild
    \/ MainDispatch
    \/ ToFileCreate
    \/ UpdateNewBuffer
    \/ ReadExe
    \/ WriteLink
    \/ WriteExe
    \/ AuxCreate
    \/ AuxRead
    \/ AuxWrite
    \/ ZipClose
    \/ FileClose
    \/ MainAfterToFile
    \/ UpdateConfig
    \/ UpdateCall
    \/ LoopReport
    \/ Poll
    \/ MainAfterUpdate
    \/ MainReturn

Spec == Init /\ [][Next]_vars

\* The program is sequential and keeps running: every enabled step is taken.
LiveSpec == Spec /\ WF_vars(Next)

TypeOK ==
    /\ pc \in {"main", "goBuild", "dispatch", "toFile", "update", "readExe",
               "writeLink", "writeExe", "auxCreate", "auxRead", "auxWrite",
               "zipClose", "fileClose", "toFileRet", "built", "updCall",
               "loop", "poll", "updRet", "return", "exit"}
    /\ getCalls \in 0..MaxPolls
    /\ Len(reports) <= MaxPolls + 1

\* ------------------------------------------------------- reading archives
archive == zw.entries

\* compressExeAndArgs has just returned, with a nil error.
Built == pc \in {"fileClose", "built"}
BuiltOK == Built /\ err = Nil

\* FileHeader.Mode(): a Unix-made entry whose type bits are S_IFLNK.
IsSymlink(e) == e.creator = UnixCreator /\ e.mode \div 4096 = 10
IsRegular(e) == ~IsSymlink(e)
\* The owner's execute bit of a Unix-made entry.
IsExecutable(e) == e.creator = UnixCreator /\ (e.mode \div 64) % 2 = 1

Named(n) == {k \in 1..Len(archive) : archive[k].name = n}
LinksTo(t) == {k \in 1..Len(archive) : IsSymlink(archive[k]) /\ archive[k].data = t}
Symlinks == {k \in 1..Len(archive) : IsSymlink(archive[k])}

\* What extraction can leave at path n: with several entries of one name the
\* extractor's overwrite policy decides which of them it is.
ExtractedAt(n) == {archive[k] : k \in Named(n)}
ResolvedAt(n) ==
    UNION {IF IsSymlink(e) THEN ExtractedAt(e.data) ELSE {e} : e \in ExtractedAt(n)}

\* ------------------------------------------------------------------ claims
\* C1: every archive of a successful build has exactly one entry named
\* "bootstrap" and, when the executable's base name differs from "bootstrap",
\* exactly one symbolic-link entry whose target is that base name.
C1_OneBootstrap ==
    BuiltOK =>
        /\ Cardinality(Named(BootstrapName)) = 1
        /\ Base(inputExe) # BootstrapName =>
               Cardinality(LinksTo(Base(inputExe))) = 1

\* C2: an executable whose base name is not "bootstrap", packaged without
\* auxiliary files, gives exactly two entries: the link "bootstrap" whose
\* target is the base name, and a regular file named with the base name.
C2_LinkAndExe ==
    (BuiltOK /\ Base(inputExe) # BootstrapName /\ args = <<>>) =>
        /\ Len(archive) = 2
        /\ \E i, j \in 1..Len(archive) :
            /\ i # j
            /\ archive[i].name = BootstrapName
            /\ IsSymlink(archive[i])
            /\ archive[i].data = Base(inputExe)
            /\ archive[j].name = Base(inputExe)
            /\ IsRegular(archive[j])

C2_Witness ==
    /\ BuiltOK
    /\ Base(inputExe) = "handler"
    /\ args = <<>>
    /\ Len(archive) = 2

\* C3 as stated: an executable whose base name is "bootstrap" gives an
\* archive of exactly one entry and no symbolic link.
C3_Original ==
    (BuiltOK /\ Base(inputExe) = BootstrapName) =>
        /\ Len(archive) = 1
        /\ Symlinks = {}

\* C3 as amended: an executable whose base name is "bootstrap" gives an
\* archive with no symbolic link whose only entry besides the auxiliary
\* files' entries is the executable: one entry when there are no auxiliary
\* files.
C3_OneExeEntryNoLink ==
    (BuiltOK /\ Base(inputExe) = BootstrapName) =>
        /\ Len(archive) = 1 + Len(args)
        /\ Symlinks = {}
        /\ archive[1].name = BootstrapName
        /\ archive[1].data = data

C3_Witness ==
    /\ BuiltOK
    /\ Base(inputExe) = BootstrapName
    /\ Len(args) = 1
    /\ Len(archive) = 2

\* C4: after a successful build, resolving "bootstrap" in the extracted
\* archive, directly or through the link, yields a regular file with the
\* execute bit set whose bytes are the input executable's.
C4_BootstrapResolves ==
    BuiltOK =>
        /\ ResolvedAt(BootstrapName) # {}
        /\ \A e \in ResolvedAt(BootstrapName) :
            /\ IsRegular(e)
            /\ IsExecutable(e)
            /\ e.data = fs[PathStr(inputExe)]

\* C5: when reading the executable or an auxiliary file fails, the build
\* returns an error, every file was read before any entry was written, and
\* on the file path no output file holding a partial archive is left.
C5_NoPartialArchive ==
    /\ \A i, j \in 1..Len(ioLog) :
           (i < j /\ ioLog[i][1] = "entry") => ioLog[j][1] # "read"
    /\ (pc = "toFileRet" /\ err = "readErr") =>
           ~(outFile.exists /\ outFile.entries # <<>>)
    /\ (Built /\ \E k \in 1..Len(flagArgs) :
                    /\ fs[PathStr(IF k = 1 THEN inputExe ELSE flagArgs[k])] = NoFile
                    /\ k <= argi + 1) => err # Nil

\* updateFunctionCode has returned to main.
Returned == pc \in {"updRet", "return", "exit"}
Terminal(st) == st \in LastUpdateStatus \ {InProgress}
LastObserved == observed[Len(observed)]
AllInProgress == \A k \in 1..Len(observed) : observed[k].state = InProgress

\* C6: when the remote answers n in-progress statuses and then a terminal
\* one, updateFunctionCode emits n+1 status lines, one per observed status in
\* order, leaves the loop after the terminal one's line and returns nil.
C6_OneReportPerStatus ==
    /\ pc = "poll" => status = InProgress
    /\ (pc = "updRet" /\ observed # <<>> /\ Terminal(LastObserved.state)) =>
        /\ \A k \in 1..(Len(observed) - 1) : observed[k].state = InProgress
        /\ Len(reports) = Len(observed)
        /\ \A k \in 1..Len(observed) :
               reports[k] = [state |-> observed[k].state,
                             reason |-> deref(observed[k].reason)]
        /\ getCalls = Len(observed) - 1
        /\ err = Nil

C6_Witness ==
    /\ pc = "updRet"
    /\ Len(observed) = 3
    /\ observed[1].state = InProgress
    /\ observed[2].state = InProgress
    /\ observed[3].state = Successful
    /\ Len(reports) = 3
    /\ err = Nil

\* C7: when the UpdateFunctionCode call fails, updateFunctionCode returns
\* that error at once: GetFunction is never called and no status line is
\* emitted.
C7_UpdateFailureReturns ==
    err = "updateErr" =>
        /\ pc \in {"updRet", "exit"}
        /\ updateCalls = 1
        /\ getCalls = 0
        /\ reports = <<>>
        /\ observed = <<>>
        /\ pc = "exit" => outcome = "fatal: failed to update function code"

C7_Witness ==
    /\ pc = "updRet"
    /\ err = "updateErr"
    /\ reports = <<>>

\* C8: whenever the loop ends on a terminal status, updateFunctionCode
\* returns nil, whichever terminal status it is, and main ends the same way
\* for a failed update as for a successful one.
C8_TerminalIsNeverAnError ==
    (Returned /\ observed # <<>> /\ Terminal(LastObserved.state)) =>
        /\ err = Nil
        /\ pc \in {"return", "exit"} => outcome = "updated"

C8_Witness ==
    /\ pc = "return"
    /\ observed # <<>>
    /\ LastObserved.state = Failed
    /\ err = Nil
    /\ outcome = "updated"

\* C9: when a GetFunction call fails, updateFunctionCode returns that error
\* at once: from then on no status line is emitted and GetFunction is not
\* called again.
C9_GetFailureReturns ==
    /\ [](err = "getErr" =>
            /\ pc \in {"updRet", "exit"}
            /\ Len(reports) = getCalls
            /\ Len(observed) = getCalls
            /\ pc = "exit" => outcome = "fatal: failed to update function code")
    /\ [][err = "getErr" => (reports' = reports /\ getCalls' = getCalls
                              /\ err' = "getErr")]_vars

C9_Witness ==
    /\ pc = "updRet"
    /\ err = "getErr"
    /\ getCalls = 2
    /\ Len(reports) = 2

\* C10: the loop runs until a terminal status is observed or a fetch fails:
\* once either has happened updateFunctionCode returns, and it has never
\* returned while every observed status is in-progress and no fetch failed.
C10_PollsUntilSettled ==
    /\ [](Returned /\ observed # <<>> /\ AllInProgress => err = "getErr")
    /\ [](pc = "poll" => (status = InProgress /\ ENABLED Poll))
    /\ (pc = "loop" /\ Terminal(status)) ~> Returned
    /\ (pc = "poll") ~> (Returned \/ pc = "loop")

C10_Witness ==
    /\ pc = "updRet"
    /\ getCalls = MaxPolls
    /\ AllInProgress
    /\ err = "getErr"

\* main is inside, or back from, one of the two output paths.
InToFile == pc \in {"toFile", "fileClose", "toFileRet"} \/ sink = "file"
InUpdate == pc \in {"update", "built", "updCall", "loop", "poll", "updRet"}
                \/ sink = "buffer"
PastDispatch == pc \in {"return", "exit"}
                   /\ outcome \notin {"", "fatal: no input provided",
                                      "fatal: failed to compile"}
Removals == {k \in 1..Len(ioLog) : ioLog[k][1] = "remove"}

C12_BuildFailureStops ==
    outcome = "fatal: failed to compile" =>
        /\ pc = "exit"
        /\ sink = "none"
        /\ zw = [entries |-> <<>>, closed |-> FALSE]
        /\ ioLog = <<>>
        /\ ~outFile.exists
        /\ updateCalls = 0
        /\ getCalls = 0

C12_Witness ==
    /\ pc = "exit"
    /\ outcome = "fatal: failed to compile"
    /\ Ext(flagArgs[1]) = ".go"

\* C13: after a successful compile the removal of the intermediate
\* executable is attempted once the packaging or deploy step has finished,
\* whether it succeeded or failed, and never changes the outcome.
C13_CleanupAlwaysAttempted ==
    /\ (pc = "exit" /\ cleanup # <<>>) =>
        /\ Cardinality(Removals) = 1
        /\ ioLog[Len(ioLog)] = <<"remove", PathStr(cleanup[1])>>
    /\ Removals # {} => (pc = "exit" /\ cleanup # <<>> /\ outcome # "")

\* The entries before the auxiliary files' entries: the link, if any, and
\* the executable.
ExeEntries == IF NeedsLink(Base(inputExe)) THEN 2 ELSE 1
PermBits(e) == e.mode % 512

\* C15: after a successful build every auxiliary file is an entry named with
\* its path as given, holding the file's bytes; these entries follow the
\* executable's entries in argument order.
C15_AuxEntriesInOrder ==
    BuiltOK =>
        /\ Len(archive) = ExeEntries + Len(args)
        /\ \A k \in 1..Len(args) :
            /\ archive[ExeEntries + k].name = PathStr(args[k])
            /\ archive[ExeEntries + k].data = fs[PathStr(args[k])]
            /\ archive[ExeEntries + k].data = FileBytes(PathStr(args[k]))

C15_Witness ==
    /\ BuiltOK
    /\ Len(args) = 2
    /\ PathStr(args[1]) = "conf/a.txt"
    /\ PathStr(args[2]) = "handler"
    /\ archive[Len(archive)].name = "handler"

\* C16 as stated: when the base name is not "bootstrap" the link entry's
\* mode is rwx for all classes (0777) with the symbolic-link bit, and the
\* executable entry is Unix-made with attributes 0777.
C16_Original ==
    (BuiltOK /\ NeedsLink(Base(inputExe))) =>
        /\ IsSymlink(archive[1])
        /\ PermBits(archive[1]) = Perm0777
        /\ archive[2].creator = UnixCreator
        /\ archive[2].mode = Perm0777

\* C16 as amended: the link entry's mode is 0755 (rwxr-xr-x) with the
\* symbolic-link bit, and the executable entry is Unix-made with attributes
\* 0777.
C16_LinkAndExeModes ==
    (BuiltOK /\ NeedsLink(Base(inputExe))) =>
        /\ archive[1].name = BootstrapName
        /\ archive[1].creator = UnixCreator
        /\ IsSymlink(archive[1])
        /\ PermBits(archive[1]) = Perm0755
        /\ archive[2].name = Base(inputExe)
        /\ archive[2].creator = UnixCreator
        /\ archive[2].mode = Perm0777
        /\ archive[2].method = "Deflate"

C16_Witness ==
    /\ BuiltOK
    /\ Base(inputExe) = "main.go.exe"
    /\ Len(archive) >= 2
    /\ archive[1].mode = ModeSymlinkBits + Perm0755

\* C17: each observed status is reported before the wait and GetFunction
\* call that follow it, GetFunction is called only while the last observed
\* status is in-progress, and never after a terminal status was observed.
C17_ReportThenPoll ==
    /\ [](pc = "poll" => (status = InProgress /\ Len(reports) = Len(observed)))
    /\ [](Len(reports) <= Len(observed) /\ Len(observed) <= Len(reports) + 1)
    /\ [][getCalls' # getCalls =>
            /\ observed # <<>>
            /\ LastObserved.state = InProgress
            /\ reports # <<>>
            /\ reports[Len(reports)].state = InProgress
            /\ Len(reports) = Len(observed)]_vars
    /\ [][(observed # <<>> /\ Terminal(LastObserved.state)) =>
            (getCalls' = getCalls /\ observed' = observed)]_vars

C17_Witness ==
    /\ pc = "poll"
    /\ getCalls = 1
    /\ Len(reports) = 2
    /\ Len(observed) = 2

\* C18: whenever compressExeAndArgsToFile returns after it opened the
\* output file, on error paths too, the file handle was closed exactly once
\* and the zip writer was closed before it.
C18_ClosedOnceInOrder ==
    /\ (pc \in {"toFileRet", "return", "exit"} /\ outFile.exists) =>
           (closes = <<"zip", "file">> /\ zw.closed)
    /\ (\E k \in 1..Len(closes) : closes[k] = "file") =>
           (closes[1] = "zip" /\ Len(closes) = 2)

C18_Witness ==
    /\ pc = "toFileRet"
    /\ outFile.exists
    /\ err = "readErr"
    /\ closes = <<"zip", "file">>

\* ------------------------------------------------- functions on their own
\* The state of main while a single function is evaluated outside it.
NoMain ==
    /\ pc = "exit"
    /\ flagArgs = <<>>
    /\ functionName = ""
    /\ outputZip = ""
    /\ inputExe = P("", "", "")
    /\ fs = [p \in AllFsPaths |-> NoFile]
    /\ cleanup = <<>>
    /\ sink = "none"
    /\ outFile = NoOutFile
    /\ zw = [entries |-> <<>>, closed |-> FALSE]
    /\ data = ""
    /\ argi = 0
    /\ err = Nil
    /\ closes = <<>>
    /\ ioLog = <<>>
    /\ status = ""
    /\ statusReason = <<>>
    /\ reports = <<>>
    /\ observed = <<>>
    /\ updateCalls = 0
    /\ getCalls = 0
    /\ outcome = ""

\* ------------------------------------------------- goBuild's environment
MaxEnv == 3         \* entries of the caller's environment

\* An environment is a sequence of KEY=value entries.
KV(k, v) == [key |-> k, val |-> v]
EnvEntries == {KV("GOOS", "linux"), KV("GOOS", "darwin"),
               KV("GOARCH", "amd64"), KV("GOARCH", "arm64"),
               KV("HOME", "/root"), KV("HOME", "/home/ci")}
EnvKeys == {e.key : e \in EnvEntries}
Environs == SeqsUpTo(EnvEntries, MaxEnv)

\* goBuild, lines 206-212: the two fixed entries, then os.Environ().
cmdEnv(environ) == <<KV("GOOS", "linux"), KV("GOARCH", "amd64")>> \o environ

\* What the started process sees for a key: of several entries for one key
\* the last one in the slice is used.
Lookup(env, k) ==
    LET at == {i \in 1..Len(env) : env[i].key = k}
    IN IF at = {} THEN "<unset>"
       ELSE env[CHOOSE i \in at : \A j \in at : j <= i].val

EnvInit ==
    /\ NoMain
    /\ fnCall = "goBuild"
    /\ fnArg \in Environs
    /\ fnRet = <<>>

\* goBuild, lines 205-215: the command is given its environment and run.
GoBuildRun ==
    /\ fnCall = "goBuild"
    /\ fnRet' = cmdEnv(fnArg)
    /\ fnCall' = "goBuild: run"
    /\ UNCHANGED <<mainVars, fnArg>>

EnvNext == GoBuildRun

EnvSpec == EnvInit /\ [][EnvNext]_vars

\* C14: whatever the caller's environment, one defining GOOS or GOARCH
\* included, the environment the build runs in has GOOS=linux and
\* GOARCH=amd64 and gives every other key the caller's value.
C14_TargetOverridesCaller ==
    fnCall = "goBuild: run" =>
        /\ Lookup(fnRet, "GOOS") = "linux"
        /\ Lookup(fnRet, "GOARCH") = "amd64"
        /\ \A k \in EnvKeys \ {"GOOS", "GOARCH"} : Lookup(fnRet, k) = Lookup(fnArg, k)

\* ---------------------------------------------- commaSeperatedValues
MaxStrLen == 2      \* characters per value
MaxList == 2        \* values per list

\* A string is a sequence of characters; these three are enough to tell
\* separators, characters JSON must escape, and ordinary ones apart.
Chars == {"a", ",", "\""}
Strings == SeqsUpTo(Chars, MaxStrLen)
StringLists == SeqsUpTo(Strings, MaxList)

\* strings.Join, line 126.
RECURSIVE Join(_, _)
Join(elems, sep) ==
    IF elems = <<>> THEN <<>>
    ELSE IF Len(elems) = 1 THEN elems[1]
    ELSE elems[1] \o sep \o Join(Tail(elems), sep)

RECURSIVE Split_DropEmpty(_, _)
Split_DropEmpty(str, sep) ==
    LET at == {i \in 1..Len(str) : str[i] = sep}
    IN IF at = {} THEN (IF str = <<>> THEN <<>> ELSE <<str>>)
       ELSE LET i == CHOOSE k \in at : \A j \in at : k <= j
                head == SubSeq(str, 1, i - 1)
            IN (IF head = <<>> THEN <<>> ELSE <<head>>)
                   \o Split_DropEmpty(SubSeq(str, i + 1, Len(str)), sep)

\* strings.Split, line 121: the pieces between the separators, empty pieces
\* included; a string without separator is the only piece.
RECURSIVE Split(_, _)
Split(str, sep) ==
    LET at == {i \in 1..Len(str) : str[i] = sep}
    IN IF at = {} THEN <<str>>
       ELSE LET i == CHOOSE k \in at : \A j \in at : k <= j
            IN <<SubSeq(str, 1, i - 1)>> \o Split(SubSeq(str, i + 1, Len(str)), sep)

\* json.Marshal of a string, line 126: quoted, with quote and backslash
\* escaped.
RECURSIVE jsonEscape(_)
jsonEscape(str) ==
    IF str = <<>> THEN <<>>
    ELSE (IF Head(str) \in {"\"", "\\"} THEN <<"\\", Head(str)>> ELSE <<Head(str)>>)
             \o jsonEscape(Tail(str))
jsonMarshalString(str) == <<"\"">> \o jsonEscape(str) \o <<"\"">>

\* json.Unmarshal into a string, line 118: the text between the quotes with
\* the escapes undone, or an error.
JsonError == [err |-> TRUE, val |-> <<>>]
RECURSIVE jsonUnescape(_)
jsonUnescape(b) ==
    IF b = <<>> THEN [err |-> FALSE, val |-> <<>>]
    ELSE IF Head(b) = "\"" THEN JsonError
    ELSE IF Head(b) = "\\"
         THEN IF Len(b) < 2 \/ b[2] \notin {"\"", "\\"} THEN JsonError
              ELSE LET r == jsonUnescape(SubSeq(b, 3, Len(b)))
                   IN IF r.err THEN JsonError
                      ELSE [err |-> FALSE, val |-> <<b[2]>> \o r.val]
    ELSE LET r == jsonUnescape(Tail(b))
         IN IF r.err THEN JsonError
            ELSE [err |-> FALSE, val |-> <<Head(b)>> \o r.val]
jsonUnmarshalString(b) ==
    IF Len(b) < 2 \/ b[1] # "\"" \/ b[Len(b)] # "\"" THEN JsonError
    ELSE jsonUnescape(SubSeq(b, 2, Len(b) - 1))

\* commaSeperatedValues.MarshalJSON, lines 125-127.
MarshalJSON(c) == jsonMarshalString(Join(c, <<",">>))

\* commaSeperatedValues.UnmarshalJSON, lines 116-123.
UnmarshalJSON(b) ==
    LET r == jsonUnmarshalString(b)
    IN IF r.err THEN JsonError
       ELSE [err |-> FALSE, val |-> Split(r.val, ",")]

CsvInit ==
    /\ NoMain
    /\ fnCall = "MarshalJSON"
    /\ fnArg \in StringLists
    /\ fnRet = [json |-> <<>>, out |-> JsonError]

\* json.Marshal calls MarshalJSON on the list.
CsvMarshal ==
    /\ fnCall = "MarshalJSON"
    /\ fnRet' = [fnRet EXCEPT !.json = MarshalJSON(fnArg)]
    /\ fnCall' = "UnmarshalJSON"
    /\ UNCHANGED <<mainVars, fnArg>>

\* json.Unmarshal calls UnmarshalJSON on the bytes just produced.
CsvUnmarshal ==
    /\ fnCall = "UnmarshalJSON"
    /\ fnRet' = [fnRet EXCEPT !.out = UnmarshalJSON(fnRet.json)]
    /\ fnCall' = "csv: done"
    /\ UNCHANGED <<mainVars, fnArg>>

CsvNext == CsvMarshal \/ CsvUnmarshal

CsvSpec == CsvInit /\ [][CsvNext]_vars

HasComma(str) == \E i \in 1..Len(str) : str[i] = ","
Commas(str) == Cardinality({i \in 1..Len(str) : str[i] = ","})
RECURSIVE CommasIn(_)
CommasIn(elems) == IF elems = <<>> THEN 0
                   ELSE Commas(Head(elems)) + CommasIn(Tail(elems))

\* C19: a non-empty list of strings without commas, marshalled and then
\* unmarshalled, comes back equal, same elements in the same order; the
\* elements are joined with "," and the text is split at every ",".
C19_RoundTrip ==
    (fnCall = "csv: done" /\ fnArg # <<>>) =>
        /\ ~fnRet.out.err
        /\ Len(fnRet.out.val) = Len(fnArg) + CommasIn(fnArg)
        /\ \A k \in 1..Len(fnRet.out.val) : ~HasComma(fnRet.out.val[k])
        /\ (\A k \in 1..Len(fnArg) : ~HasComma(fnArg[k])) => fnRet.out.val = fnArg

C19_Witness ==
    /\ fnCall = "csv: done"
    /\ fnArg = << <<"a", "\"">>, <<>> >>
    /\ fnRet.out.val = fnArg

\* --------------------------------------------- messages: FromError
\* An InvokeResponse_Error as the two functions fill it in.
IRE(m, t, st, x) == [Message |-> m, Type |-> t, StackTrace |-> st, ShouldExit |-> x]
ZeroIRE == IRE("", "", <<>>, FALSE)
IREs == {IRE(m, "Handled", st, x) :
            m \in {"m1", "m2"}, st \in {<<>>, <<"frame">>}, x \in BOOLEAN}

\* A *InvokeResponse_Error: an address and the struct it points to.
Ptr(a, o) == [addr |-> a, obj |-> o]
NilPtr == Ptr("nil", ZeroIRE)

\* Interface values: nil, an InvokeResponse_Error, a pointer to one, or a
\* value of another type, by value or by pointer, with the text it prints.
NilValue == [kind |-> "nil"]
IREValue(o) == [kind |-> "InvokeResponse_Error", obj |-> o]
IREPointer(a, o) == [kind |-> "*InvokeResponse_Error", addr |-> a, obj |-> o]
Other(t, p, e, m) == [kind |-> "other", type |-> t, ptr |-> p, isError |-> e, msg |-> m]

Errors == {NilValue}
    \cup {IREValue(o) : o \in IREs}
    \cup {IREPointer(a, o) : a \in {"p1", "p2"}, o \in IREs}
    \cup {IREPointer("nil", ZeroIRE)}
    \cup {Other(t, p, TRUE, "boom") : t \in {"MyError", "errorString"}, p \in BOOLEAN}
Recovered == Errors \cup {Other("string", FALSE, FALSE, "oops")}

\* getErrorType, lines 9-15, and FromError, lines 27-32: the type's name,
\* the pointed-to type's name for a pointer.
getErrorType(errv) == errv.type

\* getPanicInfo: the panic value's text and the stack at the panic.
getPanicInfo(errv) == [Message |-> errv.msg, StackTrace |-> <<"frame">>]

FromError_NoPointerCase(errv) ==
    IF errv.kind = "nil" THEN NilPtr
    ELSE IF errv.kind = "InvokeResponse_Error" THEN Ptr("new", errv.obj)
    ELSE IF errv.kind = "*InvokeResponse_Error"
         THEN Ptr("new", IRE(errv.obj.Message, "InvokeResponse_Error", <<>>, FALSE))
    ELSE Ptr("new", IRE(errv.msg, getErrorType(errv), <<>>, FALSE))

\* FromError, lines 17-37.
FromError(errv) ==
    IF errv.kind = "nil" THEN NilPtr
    ELSE IF errv.kind = "InvokeResponse_Error" THEN Ptr("new", errv.obj)
    ELSE IF errv.kind = "*InvokeResponse_Error" THEN Ptr(errv.addr, errv.obj)
    ELSE Ptr("new", IRE(errv.msg, getErrorType(errv), <<>>, FALSE))

\* FromRecover, lines 39-56.
FromRecover(errv) ==
    IF errv.kind = "nil" THEN NilPtr
    ELSE IF errv.kind = "InvokeResponse_Error" THEN Ptr("new", errv.obj)
    ELSE IF errv.kind = "*InvokeResponse_Error" THEN Ptr(errv.addr, errv.obj)
    ELSE LET panicInfo == getPanicInfo(errv)
         IN Ptr("new", IRE(panicInfo.Message, getErrorType(errv),
                           panicInfo.StackTrace, TRUE))

\* A *InvokeResponse_Error handed on as an error.
AsError(p) == IF p.addr = "nil" THEN NilValue ELSE IREPointer(p.addr, p.obj)

ErrInit ==
    /\ NoMain
    /\ \/ fnCall = "FromError" /\ fnArg \in Errors
       \/ fnCall = "FromRecover" /\ fnArg \in Recovered
    /\ fnRet = [fn |-> "", first |-> NilPtr, second |-> NilPtr]

CallFromError ==
    /\ fnCall = "FromError"
    /\ fnRet' = [fnRet EXCEPT !.fn = "FromError", !.first = FromError(fnArg)]
    /\ fnCall' = "again"
    /\ UNCHANGED <<mainVars, fnArg>>

CallFromRecover ==
    /\ fnCall = "FromRecover"
    /\ fnRet' = [fnRet EXCEPT !.fn = "FromRecover", !.first = FromRecover(fnArg)]
    /\ fnCall' = "again"
    /\ UNCHANGED <<mainVars, fnArg>>

\* The result is passed to FromError once more.
CallFromErrorAgain ==
    /\ fnCall = "again"
    /\ fnRet' = [fnRet EXCEPT !.second = FromError(AsError(fnRet.first))]
    /\ fnCall' = "errors: done"
    /\ UNCHANGED <<mainVars, fnArg>>

ErrNext == CallFromError \/ CallFromRecover \/ CallFromErrorAgain

ErrSpec == ErrInit /\ [][ErrNext]_vars

\* A nil input: no value at all, or a nil *InvokeResponse_Error.
IsNil(v) == v = NilValue \/ (v.kind = "*InvokeResponse_Error" /\ v.addr = "nil")

\* C20: both functions return nil exactly for a nil input, hand back an
\* input that already is an InvokeResponse_Error, value or pointer, with its
\* fields unchanged, and otherwise build a new error whose ShouldExit is
\* true from FromRecover and false from FromError; FromError of a non-nil
\* result is that result.
C20_FromErrorFromRecover ==
    fnCall = "errors: done" =>
        /\ fnRet.first = NilPtr <=> IsNil(fnArg)
        /\ fnArg.kind = "InvokeResponse_Error" => fnRet.first.obj = fnArg.obj
        /\ fnArg.kind = "*InvokeResponse_Error" =>
               fnRet.first = Ptr(fnArg.addr, fnArg.obj)
        /\ fnArg.kind = "other" =>
            /\ fnRet.first.addr = "new"
            /\ fnRet.first.obj.ShouldExit = (fnRet.fn = "FromRecover")
            /\ fnRet.first.obj.Type = fnArg.type
            /\ fnRet.first.obj.Message = fnArg.msg
        /\ fnRet.first # NilPtr => fnRet.second = fnRet.first

C20_Witness ==
    /\ fnCall = "errors: done"
    /\ fnRet.fn = "FromError"
    /\ fnArg.kind = "*InvokeResponse_Error"
    /\ fnArg.obj.ShouldExit
    /\ fnRet.first.addr = "p1"
    /\ fnRet.second = fnRet.first

====
